---------------------------- MODULE Spec2Model ----------------------------
(***************************************************************************)
(* Model of the astrology intake endpoint (api/astrology-intake.js and its *)
(* diagnostic variant).  The repository keeps several revisions of the     *)
(* same handler; each invocation of the model runs one of them:            *)
(*                                                                         *)
(*   "stub"   src/api/astrology-intake.js lines   7-27                     *)
(*   "proxy"  src/api/astrology-intake.js lines 152-289                    *)
(*   "final"  src/api/astrology-intake.js lines 372-476                    *)
(*   "diag"   src/unnamed/part_000        lines  39-79                     *)
(*                                                                         *)
(* The health-check route api/ping.js is the handler "ping".               *)
(*                                                                         *)
(* An action is one resumption of the async handler: it runs from the      *)
(* point where an awaited promise settles to the next await or return.     *)
(* The CAPTCHA check awaits twice (fetch, then r.json()), so it is two     *)
(* resumptions; other invocations may run between them.                    *)
(*                                                                         *)
(* Strings that the code inspects character by character (the query        *)
(* string that is signed) are sequences of one-character strings; other    *)
(* strings are TLA+ strings.                                               *)
(***************************************************************************)
EXTENDS Naturals, Sequences, FiniteSets

\* ------------------------------------------------------------- bounds
\* number of invocations that may be in flight together
NInv == 2
\* largest number of absent/empty fields in an enumerated request body
MaxBad == 2
\* longest key or value of a signed query parameter
MaxStrLen == 2
\* largest number of signed query parameters
MaxPairs == 2

\* ------------------------------------------------------------- strings
\* UTF-16 code-unit order of the characters used (what Array.prototype.sort
\* compares by when no comparator is given)
CharOrder ==
  << "&", "/", "=", "?", "T",
     "a", "b", "c", "d", "e", "f", "g", "h", "i", "j", "k", "l", "m",
     "n", "o", "p", "q", "r", "s", "t", "u", "v", "w", "x", "y", "z" >>

Ord(c) == CHOOSE i \in 1..Len(CharOrder) : CharOrder[i] = c

RECURSIVE LexLess(_, _)
LexLess(s, t) ==
  IF t = << >> THEN FALSE
  ELSE IF s = << >> THEN TRUE
  ELSE IF Ord(Head(s)) < Ord(Head(t)) THEN TRUE
  ELSE IF Ord(Head(s)) > Ord(Head(t)) THEN FALSE
  ELSE LexLess(Tail(s), Tail(t))

\* insert string x into the sorted sequence of strings ss
RECURSIVE Insert(_, _)
Insert(x, ss) ==
  IF ss = << >> THEN << x >>
  ELSE IF LexLess(x, Head(ss)) THEN << x >> \o ss
  ELSE << Head(ss) >> \o Insert(x, Tail(ss))

\* pairs.sort()
RECURSIVE SortStrings(_)
SortStrings(ss) ==
  IF ss = << >> THEN << >> ELSE Insert(Head(ss), SortStrings(Tail(ss)))

\* pairs.join("&")
RECURSIVE Join(_)
Join(ss) ==
  IF ss = << >> THEN << >>
  ELSE IF Len(ss) = 1 THEN Head(ss)
  ELSE Head(ss) \o << "&" >> \o Join(Tail(ss))

\* `${k}=${v}` for every parameter (the signature parameter is kept apart
\* in the model of the URL, so the filter k !== "signature" is already done)
PairStrings(pairs) == [ j \in 1..Len(pairs) |-> pairs[j][1] \o << "=" >> \o pairs[j][2] ]

\* `${url.pathname}?${pairs.join("&")}`
Base(path, pairs) == path \o << "?" >> \o Join(SortStrings(PairStrings(pairs)))

\* ------------------------------------------------------------- signature
\* HMAC-SHA256 as an ideal keyed hash: distinct (key, message) give distinct
\* digests.
Hmac(secret, base) == [ key |-> secret, msg |-> base ]

NoDigest == [ key |-> "", msg |-> << >> ]

\* A supplied signature parameter.
\*   kind "none"   no signature parameter (qp.get gives null)
\*   kind "empty"  signature=
\*   kind "nonhex" a value that does not start with two hex digits
\*   kind "hex"    the hex digits of digest dig, written in one of the forms
\*                 "lower"  lowercase, nothing else (what digest("hex") gives)
\*                 "upper"  uppercase
\*                 "trail"  lowercase, followed by non-hex characters
\*                 "trunc"  lowercase, the last byte left out
SigForms == { "lower", "upper", "trail", "trunc" }

NoSig == [ kind |-> "none", dig |-> NoDigest, form |-> "lower" ]
EmptySig == [ kind |-> "empty", dig |-> NoDigest, form |-> "lower" ]
NonHexSig == [ kind |-> "nonhex", dig |-> NoDigest, form |-> "lower" ]
HexSig(d, f) == [ kind |-> "hex", dig |-> d, form |-> f ]

\* digest("hex") of a digest
HexDigest(d) == HexSig(d, "lower")

\* Buffer.from(s, "hex"): case-insensitive, stops at the first character
\* pair that is not hex.  len counts bytes.
BufferFromHex(sig) ==
  IF sig.kind = "hex"
  THEN IF sig.form = "trunc"
       THEN [ len |-> 31, bytes |-> sig.dig ]
       ELSE [ len |-> 32, bytes |-> sig.dig ]
  ELSE [ len |-> 0, bytes |-> NoDigest ]

\* crypto.timingSafeEqual inside try/catch: a length mismatch throws, and
\* the catch returns false.
TimingSafeEqualOrFalse(a, b) ==
  IF a.len # b.len THEN FALSE ELSE a.bytes = b.bytes

isFromShopifyProxy(rq) == rq.proxyHdr

verifyShopifyProxy(env, rq) ==
  IF env.SHOPIFY_APP_SECRET = "" THEN TRUE
  ELSE IF rq.signature.kind \in { "none", "empty" } THEN FALSE
  ELSE LET expected == HexDigest(Hmac(env.SHOPIFY_APP_SECRET, Base(rq.path, rq.pairs)))
       IN  TimingSafeEqualOrFalse(BufferFromHex(rq.signature), BufferFromHex(expected))


\* ------------------------------------------------------------- requests
Revs == { "stub", "proxy", "final", "diag" }
Methods == { "OPTIONS", "GET", "POST", "PUT" }

Required == { "q", "email", "first", "last", "dob", "tob", "country", "city" }
Token == "hcaptchaToken"
Fields == Required \cup { Token }

\* the field names as the characters of a query-parameter key
FieldChars ==
  [ q |-> << "q" >>,
    email |-> << "e", "m", "a", "i", "l" >>,
    first |-> << "f", "i", "r", "s", "t" >>,
    last |-> << "l", "a", "s", "t" >>,
    dob |-> << "d", "o", "b" >>,
    tob |-> << "t", "o", "b" >>,
    country |-> << "c", "o", "u", "n", "t", "r", "y" >>,
    city |-> << "c", "i", "t", "y" >>,
    hcaptchaToken |-> << "h", "c", "a", "p", "t", "c", "h", "a", "T", "o", "k", "e", "n" >> ]

\* a property of the body object: is the key there, and its value
AbsentV == [ in |-> FALSE, v |-> << >> ]
EmptyV == [ in |-> TRUE, v |-> << >> ]
SetV == [ in |-> TRUE, v |-> << "x" >> ]

\* JavaScript truthiness of a property value (!q is its negation)
Truthy(x) == x.in /\ x.v # << >>

AllAbsent == [ f \in Fields |-> AbsentV ]
AllSet == [ f \in Fields |-> SetV ]

\* What the request stream carries.
\*   "none"     nothing (raw = "")
\*   "object"   a JSON object with the properties of rq.fields
\*   "null"     the JSON text null
\*   "prim"     another JSON value that is not an object (a number)
\*   "form"     key=value&... with the names and values of rq.fields
\*   "garbage"  text that is neither JSON nor meant as a form
RawKinds == { "none", "object", "null", "prim", "form", "garbage" }
ContentTypes == { "application/json", "application/x-www-form-urlencoded", "text/plain" }

\* JSON.parse(raw) for a non-empty raw; kind "throw" is a SyntaxError
JsonParse(rq) ==
  CASE rq.raw = "object" -> [ kind |-> "record", f |-> rq.fields ]
    [] rq.raw = "null" -> [ kind |-> "null", f |-> AllAbsent ]
    [] rq.raw = "prim" -> [ kind |-> "prim", f |-> AllAbsent ]
    [] OTHER -> [ kind |-> "throw", f |-> AllAbsent ]

\* Object.fromEntries(new URLSearchParams(raw)): JSON text or garbage gives
\* an object whose keys are none of the fields
FormParse(rq) ==
  IF rq.raw = "form" THEN [ kind |-> "record", f |-> rq.fields ]
  ELSE [ kind |-> "record", f |-> AllAbsent ]

EmptyObject == [ kind |-> "record", f |-> AllAbsent ]
Rejected == [ kind |-> "reject", f |-> AllAbsent ]

\* readBody: what the promise settles to (kind "reject": it rejects)
readBody(rq) ==
  IF rq.streamError THEN Rejected
  ELSE IF rq.ct = "application/json"
       THEN IF rq.raw = "none" THEN EmptyObject
            ELSE IF JsonParse(rq).kind = "throw" THEN Rejected ELSE JsonParse(rq)
  ELSE IF rq.ct = "application/x-www-form-urlencoded" THEN FormParse(rq)
  ELSE IF rq.raw = "none" THEN EmptyObject
       ELSE IF JsonParse(rq).kind = "throw" THEN EmptyObject ELSE JsonParse(rq)

\* for (const [k, v] of url.searchParams) if (!(k in body)) body[k] = v;
\* on a body that is not an object the in operator throws and the
\* surrounding try/catch leaves the body as it is
RECURSIVE MergeFields(_, _)
MergeFields(f, pairs) ==
  IF pairs = << >> THEN f
  ELSE LET k == Head(pairs)[1]
           v == Head(pairs)[2]
           g == [ x \in Fields |->
                    IF FieldChars[x] = k /\ ~f[x].in THEN [ in |-> TRUE, v |-> v ] ELSE f[x] ]
       IN  MergeFields(g, Tail(pairs))

MergeQuery(b, rq) ==
  IF b.kind = "record" THEN [ b EXCEPT !.f = MergeFields(b.f, rq.pairs) ] ELSE b

\* !q || !email || !first || !last || !dob || !tob || !country || !city
MissingRequired(f) == \E x \in Required : ~Truthy(f[x])

\* ------------------------------------------------------------- responses
\* const origin = req.headers.origin || "*"
CorsOrigin(rq) == IF rq.origin = "" THEN "*" ELSE rq.origin

\* one response as the client sees it; ok is "true", "false" or "absent"
Response(code, kind, ok, text, acao) ==
  [ status |-> code, kind |-> kind, ok |-> ok, text |-> text, acao |-> acao ]

Send(s, r) ==
  [ s EXCEPT !.resp = Append(@, r), !.log = Append(@, "respond"), !.pc = "done" ]

\* reply / json / send: setCors, status, JSON body
reply(s, rq, code, ok, text) ==
  Send(s, Response(code, "json", ok, text, CorsOrigin(rq)))

bad(s, rq, code, text) == reply(s, rq, code, "false", text)

\* an exception leaves the handler: no response is sent
Escape(s) == [ s EXCEPT !.escaped = TRUE, !.pc = "done" ]

Start(s, step) == [ s EXCEPT !.log = Append(@, step) ]

\* a call to a collaborator is made and awaited
Call(s, step, who, pc) ==
  [ s EXCEPT !.log = Append(@, step), !.calls[who] = @ + 1, !.pc = pc ]

\* ------------------------------------------------------------- state
VARIABLES
  env,       \* process.env, fixed for the life of the process
  req,       \* req[i]: the request of invocation i
  st,        \* st[i]: where invocation i is and what it has done
  _openai    \* the module-level client of the final revision: 0 is null,
             \* i > 0 the client object that invocation i constructed

vars == << env, req, st, _openai >>

Inv == 1..NInv

Collaborators == { "captcha", "gen", "render", "email" }

\* st[i] before the handler is entered.  hc, gen, pdf and mail record how
\* the awaited calls settled ("" while they have not); client is the
\* _openai value the invocation used (0: none)
Fresh(pc) ==
  [ pc |-> pc, log |-> << >>, calls |-> [ c \in Collaborators |-> 0 ],
    resp |-> << >>, escaped |-> FALSE,
    hc |-> "", gen |-> "", pdf |-> "", mail |-> "", client |-> 0 ]

\* ------------------------------------------------------------- the handlers
\* process.env.TEST_MODE === "1"
TestMode(e) == e.TEST_MODE = "1"

\* mutant: only an explicit success:false is refused (hc.success !== false)
hcSuccess_NotFalse(hc) == hc # "false"

\* truthiness of hc?.success for the CAPTCHA provider's JSON answer
hcSuccess(hc) == hc \in { "true", "truthy" }

\* ---- up to the first await
OnRequest_stub(s, rq) ==
  CASE rq.method = "OPTIONS" -> Send(s, Response(204, "empty", "absent", "", "*"))
    [] rq.method = "GET" ->
         Send(s, Response(200, "json", "true", "Astrology Intake API is reachable.", "*"))
    [] rq.method \notin { "OPTIONS", "GET", "POST" } ->
         Send(s, Response(405, "json", "false", "Method not allowed", "*"))
    [] OTHER -> [ s EXCEPT !.pc = "done" ]

OnRequest_proxy(s, rq, e) ==
  IF rq.method = "OPTIONS"
  THEN Send(s, Response(204, "empty", "absent", "", CorsOrigin(rq)))
  ELSE IF rq.method # "POST" THEN bad(s, rq, 405, "Method not allowed")
  ELSE IF isFromShopifyProxy(rq) /\ ~verifyShopifyProxy(e, rq)
       THEN bad(s, rq, 401, "Invalid Shopify proxy signature")
  ELSE [ Start(s, "read") EXCEPT !.pc = "awaitBody" ]

OnRequest_final(s, rq) ==
  IF rq.method = "OPTIONS" THEN reply(s, rq, 204, "absent", "")
  ELSE IF rq.method = "GET" THEN reply(s, rq, 200, "true", "Astrology Intake API is reachable.")
  ELSE IF rq.method # "POST" THEN bad(s, rq, 405, "Method not allowed")
  ELSE [ Start(s, "read") EXCEPT !.pc = "awaitBody" ]

OnRequest_diag(s, rq) ==
  IF rq.method = "OPTIONS" THEN reply(s, rq, 204, "absent", "")
  ELSE IF rq.method = "GET" THEN reply(s, rq, 200, "true", "Health OK")
  ELSE IF rq.method # "POST" THEN bad(s, rq, 405, "Method not allowed")
  ELSE [ Start(s, "read") EXCEPT !.pc = "awaitBody" ]

\* the health-check route: one answer for every method, Content-Type the
\* only header set (acao "" is no Access-Control-Allow-Origin header)
OnRequest_ping(s, rq) == Send(s, Response(200, "json", "true", "/api/ping", ""))

\* ---- field validation and the CAPTCHA call (the same in every revision)
Validate(s, rq, f) ==
  IF MissingRequired(f) THEN bad(Start(s, "validate"), rq, 400, "Missing required fields.")
  ELSE IF ~Truthy(f[Token]) THEN bad(Start(s, "validate"), rq, 400, "hCaptcha token missing.")
  ELSE Call(Start(s, "validate"), "captcha", "captcha", "awaitCaptcha")

\* ---- readBody has settled
\* proxy revision: no outer try/catch, so destructuring a null body throws
\* out of the handler
OnBody_proxy(s, rq) ==
  LET b == readBody(rq)
      m == MergeQuery(b, rq)
  IN  IF b.kind = "reject" THEN bad(s, rq, 400, "Invalid JSON body")
      ELSE IF m.kind = "null" THEN Escape(s)
      ELSE Validate(s, rq, m.f)

\* final and diagnostic revisions: the TypeError reaches the outer catch
OnBody_final(s, rq) ==
  LET b == readBody(rq)
  IN  IF b.kind = "reject" THEN bad(s, rq, 400, "Invalid JSON body")
      ELSE IF b.kind = "null" THEN reply(s, rq, 500, "false", "Server error.")
      ELSE Validate(s, rq, b.f)

OnBody_diag(s, rq) ==
  LET b == readBody(rq)
  IN  IF b.kind = "reject" THEN bad(s, rq, 400, "Invalid JSON body")
      ELSE IF b.kind = "null" THEN reply(s, rq, 500, "false", "Server error.")
      ELSE Validate(s, rq, b.f)

\* mutant: a client that is already there is refused
getOpenAI_Once(e, cur, i) ==
  IF cur # 0 THEN [ ok |-> FALSE, client |-> cur ]
  ELSE IF e.OPENAI_API_KEY = "" THEN [ ok |-> FALSE, client |-> 0 ]
  ELSE [ ok |-> TRUE, client |-> i ]

\* ---- getOpenAI(): [ok, client]; ok FALSE is the thrown Error
getOpenAI(e, cur, i) ==
  IF cur # 0 THEN [ ok |-> TRUE, client |-> cur ]
  ELSE IF e.OPENAI_API_KEY = "" THEN [ ok |-> FALSE, client |-> 0 ]
  ELSE [ ok |-> TRUE, client |-> i ]

\* the rendering call is made
StartRender(s) == Call(s, "render", "render", "awaitRender")

\* ---- the catch around the two awaits of the CAPTCHA check
Unreachable(s, rq) == bad(s, rq, 502, "Could not reach hCaptcha.")

\* ---- fetch(siteverify) has settled (the same in every revision): a
\* rejection goes to the catch, a Response has r.json() called on it and
\* the handler suspends again
OnFetch(s, rq, f) ==
  IF f = "throws" THEN Unreachable([ s EXCEPT !.hc = "fetch-throws" ], rq)
  ELSE [ s EXCEPT !.pc = "awaitJson" ]

\* ---- r.json() has settled: the body of the provider's answer, or a throw
CaptchaVerdict(s, rq, hc) ==
  IF hc = "json-throws" THEN Unreachable(s, rq)
  ELSE IF ~hcSuccess(hc) THEN bad(s, rq, 400, "hCaptcha verification failed.")
  ELSE s

Passed(s) == s.pc # "done"

OnCaptcha_proxy(s, rq, hc) ==
  LET v == CaptchaVerdict([ s EXCEPT !.hc = hc ], rq, hc)
  IN  IF ~Passed(v) THEN v ELSE Call(v, "generate", "gen", "awaitGen")

OnCaptcha_final(s, rq, e, hc, cur, i) ==
  LET v == CaptchaVerdict([ s EXCEPT !.hc = hc ], rq, hc)
      g == getOpenAI(e, cur, i)
  IN  IF ~Passed(v) THEN v
      ELSE IF TestMode(e) THEN StartRender(v)
      ELSE IF ~g.ok THEN bad(Start(v, "generate"), rq, 502, "AI generation failed.")
      ELSE [ Call(v, "generate", "gen", "awaitGen") EXCEPT !.client = g.client ]

OnCaptcha_diag(s, rq, hc) ==
  LET v == CaptchaVerdict([ s EXCEPT !.hc = hc ], rq, hc)
  IN  IF ~Passed(v) THEN v ELSE reply(v, rq, 200, "true", "Diagnostic OK: captcha passed.")

\* _openai after the resumption
ClientAfter(rq, e, hc, cur, i) ==
  IF rq.rev = "final" /\ hcSuccess(hc) /\ ~TestMode(e) THEN getOpenAI(e, cur, i).client ELSE cur

\* mutant: a failed generation is swallowed and the document rendered anyway
OnGen_Swallow(s, rq, g) == StartRender([ s EXCEPT !.gen = g ])

\* ---- openai.responses.create has settled (proxy and final alike)
OnGen(s, rq, g) ==
  IF g = "throws" THEN bad([ s EXCEPT !.gen = g ], rq, 502, "AI generation failed.")
  ELSE StartRender([ s EXCEPT !.gen = g ])

\* ---- renderPdf has settled
OnRender_proxy(s, rq, p) ==
  IF p = "error" THEN bad([ s EXCEPT !.pdf = p ], rq, 500, "PDF generation failed.")
  ELSE Call([ s EXCEPT !.pdf = p ], "email", "email", "awaitEmail")

OnRender_final(s, rq, e, p) ==
  IF TestMode(e)
  THEN IF p = "error" THEN reply([ s EXCEPT !.pdf = p ], rq, 500, "false", "Server error.")
       ELSE reply([ s EXCEPT !.pdf = p ], rq, 200, "true", "Test mode OK (PDF generated, email skipped).")
  ELSE IF p = "error" THEN bad([ s EXCEPT !.pdf = p ], rq, 500, "PDF generation failed.")
  ELSE Call([ s EXCEPT !.pdf = p ], "email", "email", "awaitEmail")

\* mutant: a failed send is tried once more
OnEmail_Retry(s, rq, m) ==
  IF m = "fail" /\ s.calls["email"] < 2
  THEN Call([ s EXCEPT !.mail = "" ], "email", "email", "awaitEmail")
  ELSE IF m = "fail" THEN bad([ s EXCEPT !.mail = m ], rq, 502, "Email delivery failed.")
  ELSE reply([ s EXCEPT !.mail = m ], rq, 200, "true", "Your reading is being sent to your email.")

\* mutant: the outcome of the send is not looked at
OnEmail_FireAndForget(s, rq, m) ==
  reply([ s EXCEPT !.mail = m ], rq, 200, "true", "Your reading is being sent to your email.")

\* ---- sg.send has settled (proxy and final alike)
OnEmail(s, rq, m) ==
  IF m = "fail" THEN bad([ s EXCEPT !.mail = m ], rq, 502, "Email delivery failed.")
  ELSE reply([ s EXCEPT !.mail = m ], rq, 200, "true", "Your reading is being sent to your email.")

\* ------------------------------------------------------------- outcomes
\* fetch: rejects, or resolves to a Response
FetchOutcomes == { "throws", "response" }
\* r.json(): rejects, or resolves to a value whose success is true, another
\* truthy value, false, not there, or to the value null
JsonOutcomes == { "json-throws", "true", "truthy", "false", "missing", "null" }
GenOutcomes == { "throws", "text", "empty" }
PdfOutcomes == { "ok", "error" }
MailOutcomes == { "ok", "fail" }

\* ------------------------------------------------------------- resumptions by revision
OnRequest(s, rq, e) ==
  CASE rq.rev = "stub" -> OnRequest_stub(s, rq)
    [] rq.rev = "proxy" -> OnRequest_proxy(s, rq, e)
    [] rq.rev = "final" -> OnRequest_final(s, rq)
    [] rq.rev = "ping" -> OnRequest_ping(s, rq)
    [] OTHER -> OnRequest_diag(s, rq)

OnBody(s, rq) ==
  CASE rq.rev = "proxy" -> OnBody_proxy(s, rq)
    [] rq.rev = "final" -> OnBody_final(s, rq)
    [] OTHER -> OnBody_diag(s, rq)

OnCaptcha(s, rq, e, hc, cur, i) ==
  CASE rq.rev = "proxy" -> OnCaptcha_proxy(s, rq, hc)
    [] rq.rev = "final" -> OnCaptcha_final(s, rq, e, hc, cur, i)
    [] OTHER -> OnCaptcha_diag(s, rq, hc)

OnRender(s, rq, e, p) ==
  IF rq.rev = "proxy" THEN OnRender_proxy(s, rq, p) ELSE OnRender_final(s, rq, e, p)

\* ------------------------------------------------------------- actions
Request(i) ==
  /\ st[i].pc = "start"
  /\ st' = [ st EXCEPT ![i] = OnRequest(@, req[i], env) ]
  /\ UNCHANGED << env, req, _openai >>

BodyRead(i) ==
  /\ st[i].pc = "awaitBody"
  /\ st' = [ st EXCEPT ![i] = OnBody(@, req[i]) ]
  /\ UNCHANGED << env, req, _openai >>

CaptchaFetched(i) ==
  /\ st[i].pc = "awaitCaptcha"
  /\ \E f \in FetchOutcomes : st' = [ st EXCEPT ![i] = OnFetch(@, req[i], f) ]
  /\ UNCHANGED << env, req, _openai >>

CaptchaAnswer(i) ==
  /\ st[i].pc = "awaitJson"
  /\ \E hc \in JsonOutcomes :
       /\ st' = [ st EXCEPT ![i] = OnCaptcha(@, req[i], env, hc, _openai, i) ]
       /\ _openai' = ClientAfter(req[i], env, hc, _openai, i)
  /\ UNCHANGED << env, req >>

GenAnswer(i) ==
  /\ st[i].pc = "awaitGen"
  /\ \E g \in GenOutcomes : st' = [ st EXCEPT ![i] = OnGen(@, req[i], g) ]
  /\ UNCHANGED << env, req, _openai >>

RenderAnswer(i) ==
  /\ st[i].pc = "awaitRender"
  /\ \E p \in PdfOutcomes : st' = [ st EXCEPT ![i] = OnRender(@, req[i], env, p) ]
  /\ UNCHANGED << env, req, _openai >>

EmailAnswer(i) ==
  /\ st[i].pc = "awaitEmail"
  /\ \E m \in MailOutcomes : st' = [ st EXCEPT ![i] = OnEmail(@, req[i], m) ]
  /\ UNCHANGED << env, req, _openai >>

Next ==
  \E i \in Inv :
    \/ Request(i)
    \/ BodyRead(i)
    \/ CaptchaFetched(i)
    \/ CaptchaAnswer(i)
    \/ GenAnswer(i)
    \/ RenderAnswer(i)
    \/ EmailAnswer(i)

\* ------------------------------------------------------------- inputs
Origins == { "", "https://shop.example" }
Secrets == { "", "s1" }
TestModes == { "", "1", "true" }
ApiKeys == { "", "k" }

Path == << "/", "a", "p", "i" >>

Envs == [ SHOPIFY_APP_SECRET : Secrets, TEST_MODE : TestModes, OPENAI_API_KEY : ApiKeys ]
PlainEnv == [ SHOPIFY_APP_SECRET |-> "", TEST_MODE |-> "", OPENAI_API_KEY |-> "k" ]

\* request bodies in which at most MaxBad properties are absent or empty
BodyFields ==
  { f \in [ Fields -> { AbsentV, EmptyV, SetV } ] :
      Cardinality({ x \in Fields : f[x] # SetV }) <= MaxBad }

\* what the stream carries and how it is labelled; the properties matter
\* only where the parse keeps them
BodyInputs ==
  { [ ct |-> "application/json", raw |-> "object", fields |-> f, streamError |-> FALSE ] : f \in BodyFields }
  \cup
  { [ ct |-> "application/x-www-form-urlencoded", raw |-> "form", fields |-> f, streamError |-> FALSE ] :
      f \in BodyFields }
  \cup
  { [ ct |-> "text/plain", raw |-> "object", fields |-> f, streamError |-> FALSE ] : f \in BodyFields }
  \cup
  { [ ct |-> c, raw |-> r, fields |-> AllSet, streamError |-> e ] :
      c \in ContentTypes, r \in RawKinds, e \in BOOLEAN }

\* no query parameter, or one that names a field
QueryChoices ==
  { << >> } \cup { << << FieldChars[x], v >> >> : x \in Fields, v \in { << >>, << "x" >> } }

\* a signature the proxy (key "s1") or somebody else (key "s2") computed
\* over the query that is sent, in every written form, or no usable one
SignaturesFor(pairs) ==
  { NoSig, EmptySig, NonHexSig }
  \cup { HexSig(Hmac(k, Base(Path, pairs)), f) : k \in { "s1", "s2" }, f \in SigForms }

\* req[i].signed is what the signature was computed over (not seen by the
\* handler)
Unsigned == [ key |-> "", pairs |-> << >> ]

PlainReq(rev) ==
  [ rev |-> rev, method |-> "POST", origin |-> "", proxyHdr |-> FALSE,
    path |-> Path, pairs |-> << >>, signature |-> NoSig, signed |-> Unsigned,
    ct |-> "application/json", raw |-> "object", fields |-> AllSet, streamError |-> FALSE ]

WithBody(rq, b) ==
  [ rq EXCEPT !.ct = b.ct, !.raw = b.raw, !.fields = b.fields, !.streamError = b.streamError ]

\* every method but POST, on every revision
OtherMethodRequests ==
  { [ PlainReq(rev) EXCEPT !.method = m, !.origin = o, !.proxyHdr = h ] :
      rev \in Revs, m \in Methods \ { "POST" }, o \in Origins, h \in BOOLEAN }

\* POSTs with every body, on every revision
BodyRequests ==
  { [ WithBody(PlainReq(rev), b) EXCEPT !.origin = o ] :
      rev \in Revs, b \in BodyInputs, o \in Origins }

\* POSTs to the proxy revision with a query parameter to merge
MergeRequests ==
  { [ PlainReq("proxy") EXCEPT !.fields = f, !.pairs = q ] : f \in BodyFields, q \in QueryChoices }

\* POSTs to the proxy revision, with and without the proxy's headers
SignedRequests ==
  UNION { { [ PlainReq("proxy") EXCEPT !.proxyHdr = h, !.pairs = q, !.signature = sg,
                                       !.fields = f ] :
              sg \in SignaturesFor(q), h \in BOOLEAN, f \in { AllSet, [ AllSet EXCEPT ![Token] = AbsentV ] } } :
          q \in { << >>, << << << "a" >>, << "b" >> >> >> } }

\* requests to the health-check route
PingRequests ==
  { [ PlainReq("ping") EXCEPT !.method = m, !.origin = o ] : m \in Methods, o \in Origins }

Idle == Fresh("idle")

\* one invocation; the others never arrive
InitOne(e, rq) ==
  /\ env = e
  /\ req = [ i \in Inv |-> IF i = 1 THEN rq ELSE PlainReq("final") ]
  /\ st = [ i \in Inv |-> IF i = 1 THEN Fresh("start") ELSE Idle ]
  /\ _openai = 0

Init ==
  \/ \E e \in Envs, rq \in OtherMethodRequests : InitOne(e, rq)
  \/ \E e \in Envs, rq \in BodyRequests : InitOne(e, rq)
  \/ \E rq \in MergeRequests : InitOne(PlainEnv, rq)
  \/ \E s \in Secrets, rq \in SignedRequests :
       InitOne([ PlainEnv EXCEPT !.SHOPIFY_APP_SECRET = s ], rq)
  \/ \E rq \in PingRequests : InitOne(PlainEnv, rq)

Spec == Init /\ [][Next]_vars

\* ------------------------------------------------------------- vocabulary of the claims
Done(i) == st[i].pc = "done"
\* a POST to the intake handler (any of its revisions)
IsPost(i) == req[i].method = "POST" /\ st[i].pc # "idle" /\ req[i].rev \in Revs
NoCalls(i, who) == \A c \in who : st[i].calls[c] = 0

\* the invocation has sent exactly one response, with this status, ok flag
\* and message
Answered(i, code, ok, text) ==
  /\ Len(st[i].resp) = 1
  /\ st[i].resp[1].status = code
  /\ st[i].resp[1].ok = ok
  /\ st[i].resp[1].text = text

AnsweredStatus(i, code, ok) ==
  /\ Len(st[i].resp) = 1
  /\ st[i].resp[1].status = code
  /\ st[i].resp[1].ok = ok

\* the fixed order of the pipeline steps before the response
Order == << "read", "validate", "captcha", "generate", "render", "email" >>
TestOrder == << "read", "validate", "captcha", "render" >>

IsPrefix(s, t) == Len(s) <= Len(t) /\ \A k \in 1..Len(s) : s[k] = t[k]

\* the steps started, the response left out
Steps(i) == SelectSeq(st[i].log, LAMBDA x : x # "respond")

Count(s, x) == Cardinality({ k \in 1..Len(s) : s[k] = x })

\* the response, when there is one, was the last thing started, once
RespondsLast(i) ==
  /\ Count(st[i].log, "respond") <= 1
  /\ Count(st[i].log, "respond") = Len(st[i].resp)
  /\ ("respond" \in { st[i].log[k] : k \in 1..Len(st[i].log) }
        => st[i].log[Len(st[i].log)] = "respond" /\ Done(i))

\* the last pipeline step started
LastStep(i) == IF Steps(i) = << >> THEN "" ELSE Steps(i)[Len(Steps(i))]

\* an awaited call is in flight exactly while the handler waits for it,
\* and it is the step started last
InFlight(i) ==
  CASE st[i].pc = "awaitBody" -> "read"
    [] st[i].pc \in { "awaitCaptcha", "awaitJson" } -> "captcha"
    [] st[i].pc = "awaitGen" -> "generate"
    [] st[i].pc = "awaitRender" -> "render"
    [] st[i].pc = "awaitEmail" -> "email"
    [] OTHER -> ""

\* an external call of the invocation has failed
CallFailed(i) ==
  \/ st[i].hc \in { "fetch-throws", "json-throws", "false", "missing", "null" }
  \/ st[i].gen = "throws"
  \/ st[i].pdf = "error"
  \/ st[i].mail = "fail"

\* ------------------------------------------------------------- C1
\* C1: in every POST invocation whose CAPTCHA call returned a JSON answer
\* with a false, missing or otherwise falsy success flag, the handler has
\* answered 400 with ok:false and has called neither the text generation,
\* nor the renderer, nor the email service; and an invocation that went
\* past CAPTCHA verification (called one of those three, or answered 200
\* to a POST) had a truthy flag.
C1_CaptchaGate ==
  \A i \in Inv :
    IsPost(i) =>
      /\ st[i].hc \in { "false", "missing", "null" } =>
           /\ Done(i)
           /\ Answered(i, 400, "false", "hCaptcha verification failed.")
           /\ NoCalls(i, { "gen", "render", "email" })
      /\ (  \/ ~NoCalls(i, { "gen", "render", "email" })
            \/ \E k \in 1..Len(st[i].resp) : st[i].resp[k].status = 200
            \/ "generate" \in { st[i].log[k] : k \in 1..Len(st[i].log) } )
           => st[i].hc \in { "true", "truthy" }

C1_Witness ==
  \E i \in Inv :
    /\ IsPost(i) /\ Done(i) /\ st[i].hc = "missing"
    /\ st[i].calls["captcha"] = 1
    /\ Answered(i, 400, "false", "hCaptcha verification failed.")

\* ------------------------------------------------------------- C2
\* C2 as stated: in every POST invocation the pipeline steps started so far
\* are a prefix of body read, field validation, CAPTCHA verification, text
\* generation, rendering, email dispatch (then the response); no call is
\* made twice; the call in flight is the step started last; a failed
\* external call ends the invocation.
C2_AsStated ==
  \A i \in Inv :
    IsPost(i) =>
      /\ IsPrefix(Steps(i), Order)
      /\ RespondsLast(i)
      /\ \A c \in Collaborators : st[i].calls[c] <= 1
      /\ InFlight(i) # "" => LastStep(i) = InFlight(i)
      /\ CallFailed(i) => Done(i)

\* C2 amended: the same, except that with the test-mode flag set the final
\* revision skips text generation and email dispatch, so that there the
\* steps started are a prefix of body read, field validation, CAPTCHA
\* verification, rendering.
C2_Sequential ==
  \A i \in Inv :
    IsPost(i) =>
      /\ IF req[i].rev = "final" /\ env.TEST_MODE = "1"
         THEN IsPrefix(Steps(i), TestOrder)
         ELSE IsPrefix(Steps(i), Order)
      /\ RespondsLast(i)
      /\ \A c \in Collaborators : st[i].calls[c] <= 1
      /\ InFlight(i) # "" => LastStep(i) = InFlight(i)
      /\ CallFailed(i) => Done(i)

C2_Witness ==
  \E i \in Inv :
    /\ IsPost(i) /\ Done(i)
    /\ st[i].log = Order \o << "respond" >>
    /\ st[i].mail = "fail"
    /\ \A c \in Collaborators : st[i].calls[c] = 1

\* ------------------------------------------------------------- C3
\* the body as readBody hands it to the handler
Parsed(i) == readBody(req[i])

\* the request got as far as a parsed body
BodyParsed(i) ==
  /\ IsPost(i) /\ req[i].rev # "stub"
  /\ st[i].pc \notin { "start", "awaitBody" }
  /\ "read" \in { st[i].log[k] : k \in 1..Len(st[i].log) }
  /\ Parsed(i).kind # "reject"

\* C3: for every parsed POST body, if one of the eight required fields is
\* absent or empty the response is 400 "Missing required fields."; if all
\* eight are there and hcaptchaToken is absent or empty it is 400
\* "hCaptcha token missing."; in both cases no collaborator is called.
C3_AsStated ==
  \A i \in Inv :
    BodyParsed(i) =>
      /\ MissingRequired(Parsed(i).f) =>
           /\ Done(i)
           /\ Answered(i, 400, "false", "Missing required fields.")
           /\ NoCalls(i, Collaborators)
      /\ (~MissingRequired(Parsed(i).f) /\ ~Truthy(Parsed(i).f[Token])) =>
           /\ Done(i)
           /\ Answered(i, 400, "false", "hCaptcha token missing.")
           /\ NoCalls(i, Collaborators)

\* ------------------------------------------------------------- C4
\* the text-generation step was entered and failed: the provider call
\* threw, or getOpenAI() threw before any call was made
GenFailed(i) ==
  \/ st[i].gen = "throws"
  \/ /\ "generate" \in { st[i].log[k] : k \in 1..Len(st[i].log) }
     /\ st[i].calls["gen"] = 0

\* C4: in every POST invocation past a successful CAPTCHA check, with test
\* mode off, a failed text-generation step is answered 502 "AI generation
\* failed." and neither the renderer nor the email service is called; an
\* email is sent only after the generation call has returned.
C4_GenerationGate ==
  \A i \in Inv :
    (IsPost(i) /\ req[i].rev \in { "proxy", "final" }) =>
      /\ (st[i].hc \in { "true", "truthy" } /\ GenFailed(i)) =>
           /\ Done(i)
           /\ Answered(i, 502, "false", "AI generation failed.")
           /\ NoCalls(i, { "render", "email" })
      /\ st[i].calls["email"] > 0 =>
           st[i].calls["gen"] = 1 /\ st[i].gen \in { "text", "empty" }

C4_Witness ==
  \E i \in Inv :
    /\ IsPost(i) /\ Done(i) /\ st[i].hc = "true" /\ st[i].gen = "throws"
    /\ st[i].calls["gen"] = 1
    /\ Answered(i, 502, "false", "AI generation failed.")

\* ------------------------------------------------------------- C5
\* C5: when CAPTCHA verification, generation and rendering succeeded and
\* the send call fails, the answer is 502 "Email delivery failed." and
\* nothing is started after the failed send but the response; 200 "Your
\* reading is being sent to your email." is sent only when the send call
\* was made and returned without error.
C5_DeliveryOutcome ==
  \A i \in Inv :
    IsPost(i) =>
      /\ st[i].mail = "fail" =>
           /\ Done(i)
           /\ Answered(i, 502, "false", "Email delivery failed.")
           /\ st[i].log = Order \o << "respond" >>
           /\ \A c \in Collaborators : st[i].calls[c] = 1
      /\ (\E k \in 1..Len(st[i].resp) :
             st[i].resp[k].text = "Your reading is being sent to your email.")
           => /\ Answered(i, 200, "true", "Your reading is being sent to your email.")
              /\ st[i].calls["email"] = 1
              /\ st[i].mail = "ok"

C5_Witness ==
  \E i \in Inv :
    /\ IsPost(i) /\ Done(i) /\ st[i].mail = "fail"
    /\ st[i].hc = "true" /\ st[i].gen = "text" /\ st[i].pdf = "ok"
    /\ Answered(i, 502, "false", "Email delivery failed.")

\* ------------------------------------------------------------- C7
Arrived(i) == st[i].pc \notin { "idle", "start" }

\* C7: a request whose method is not POST never reaches body parsing,
\* validation or a collaborator, and its response is fixed by the method:
\* OPTIONS 204 with the CORS headers, GET 200 with ok:true and a
\* reachability message, any other method 405 "Method not allowed".
C7_AsStated ==
  \A i \in Inv :
    (Arrived(i) /\ req[i].method # "POST" /\ req[i].rev \in Revs) =>
      /\ Done(i)
      /\ st[i].log = << "respond" >>
      /\ NoCalls(i, Collaborators)
      /\ req[i].method = "OPTIONS" =>
           /\ Len(st[i].resp) = 1
           /\ st[i].resp[1].status = 204
           /\ st[i].resp[1].acao # ""
      /\ req[i].method = "GET" =>
           /\ AnsweredStatus(i, 200, "true")
           /\ st[i].resp[1].text \in { "Astrology Intake API is reachable.", "Health OK" }
      /\ req[i].method \notin { "OPTIONS", "GET" } =>
           Answered(i, 405, "false", "Method not allowed")

\* ------------------------------------------------------------- C8
\* C8, for the two revisions that run the whole pipeline: every invocation
\* that has ended has sent exactly one response and let no exception
\* escape, and the response is a JSON envelope with a boolean ok (the 204
\* preflight, which carries no content, is not held to the envelope).
C8_AsStated ==
  \A i \in Inv :
    (Done(i) /\ req[i].rev \in { "proxy", "final" }) =>
      /\ ~st[i].escaped
      /\ Len(st[i].resp) = 1
      /\ st[i].resp[1].status # 204 =>
           st[i].resp[1].kind = "json" /\ st[i].resp[1].ok \in { "true", "false" }

\* ------------------------------------------------------------- C9
\* C9: with TEST_MODE set to "1", a POST to the final revision is validated
\* and CAPTCHA-checked as in normal mode (400 on missing fields or token,
\* 400 on CAPTCHA rejection, 502 when the provider cannot be reached),
\* renders the document once the CAPTCHA check has passed, never calls the
\* text generation or the email service, and answers 200 only after the
\* rendering has completed.
C9_AsStated ==
  \A i \in Inv :
    (IsPost(i) /\ req[i].rev = "final" /\ env.TEST_MODE = "1") =>
      /\ NoCalls(i, { "gen", "email" })
      /\ (BodyParsed(i) /\ MissingRequired(Parsed(i).f))
           => Answered(i, 400, "false", "Missing required fields.") /\ NoCalls(i, Collaborators)
      /\ (BodyParsed(i) /\ ~MissingRequired(Parsed(i).f) /\ ~Truthy(Parsed(i).f[Token]))
           => Answered(i, 400, "false", "hCaptcha token missing.") /\ NoCalls(i, Collaborators)
      /\ st[i].hc \in { "false", "missing", "null" }
           => Answered(i, 400, "false", "hCaptcha verification failed.") /\ NoCalls(i, { "render" })
      /\ st[i].hc \in { "fetch-throws", "json-throws" }
           => Answered(i, 502, "false", "Could not reach hCaptcha.") /\ NoCalls(i, { "render" })
      /\ st[i].hc \in { "true", "truthy" } => st[i].calls["render"] = 1
      /\ (\E k \in 1..Len(st[i].resp) : st[i].resp[k].status = 200)
           => /\ AnsweredStatus(i, 200, "true")
              /\ st[i].calls["render"] = 1
              /\ st[i].pdf = "ok"

\* the test-mode POST on which the statement fails: the body is the JSON
\* text null, every field is missing, and the answer is the catch-all's 500
C9_NullBody ==
  \E i \in Inv :
    /\ IsPost(i) /\ req[i].rev = "final" /\ env.TEST_MODE = "1" /\ Done(i)
    /\ BodyParsed(i) /\ Parsed(i).kind = "null"
    /\ Answered(i, 500, "false", "Server error.")
    /\ NoCalls(i, Collaborators)

\* the part of the statement that does hold: the rest of it, for every body
\* that is not the JSON text null
C9_TestMode ==
  \A i \in Inv :
    (IsPost(i) /\ req[i].rev = "final" /\ env.TEST_MODE = "1") =>
      /\ NoCalls(i, { "gen", "email" })
      /\ (BodyParsed(i) /\ Parsed(i).kind # "null" /\ MissingRequired(Parsed(i).f))
           => Answered(i, 400, "false", "Missing required fields.") /\ NoCalls(i, Collaborators)
      /\ (BodyParsed(i) /\ Parsed(i).kind # "null" /\ ~MissingRequired(Parsed(i).f)
            /\ ~Truthy(Parsed(i).f[Token]))
           => Answered(i, 400, "false", "hCaptcha token missing.") /\ NoCalls(i, Collaborators)
      /\ st[i].hc \in { "false", "missing", "null" }
           => Answered(i, 400, "false", "hCaptcha verification failed.") /\ NoCalls(i, { "render" })
      /\ st[i].hc \in { "fetch-throws", "json-throws" }
           => Answered(i, 502, "false", "Could not reach hCaptcha.") /\ NoCalls(i, { "render" })
      /\ st[i].hc \in { "true", "truthy" } => st[i].calls["render"] = 1
      /\ (\E k \in 1..Len(st[i].resp) : st[i].resp[k].status = 200)
           => /\ AnsweredStatus(i, 200, "true")
              /\ st[i].calls["render"] = 1
              /\ st[i].pdf = "ok"

\* a test-mode POST that succeeded: CAPTCHA and rendering called once each,
\* generation and email not at all
C9_Witness ==
  \E i \in Inv :
    /\ IsPost(i) /\ req[i].rev = "final" /\ env.TEST_MODE = "1" /\ Done(i)
    /\ st[i].hc = "true" /\ st[i].pdf = "ok"
    /\ st[i].calls = [ c \in Collaborators |-> IF c \in { "captcha", "render" } THEN 1 ELSE 0 ]
    /\ AnsweredStatus(i, 200, "true")

\* ------------------------------------------------------------- signed queries
\* keys and values after URL decoding: any characters, "=" and "&" included
QueryChars == { "a", "=" }

StringsUpTo(n) == UNION { [ 1..k -> QueryChars ] : k \in 0..n }

QueryPairs == { << k, v >> : k \in StringsUpTo(MaxStrLen), v \in StringsUpTo(MaxStrLen) }

PairLists == UNION { [ 1..n -> QueryPairs ] : n \in 0..MaxPairs }

\* the queries that differ from q in exactly one parameter
OneChanged(q) ==
  { [ q EXCEPT ![j] = p ] : j \in 1..Len(q), p \in QueryPairs } \ { q }

\* the proxy signs query q with the shared secret; the request arrives with
\* that signature and query sent
ProxyRequest(q, sent) ==
  [ PlainReq("proxy") EXCEPT
      !.proxyHdr = TRUE, !.pairs = sent,
      !.signature = HexDigest(Hmac("s1", Base(Path, q))),
      !.signed = [ key |-> "s1", pairs |-> q ] ]

\* a request with one of every kind of signature over the query it carries
FormRequest(q, sg) ==
  [ PlainReq("proxy") EXCEPT !.proxyHdr = TRUE, !.pairs = q, !.signature = sg ]

\* requests whose query was signed and then left alone or changed in one
\* parameter; and requests with every kind of signature, with and without a
\* configured secret
InitProxy ==
  \/ \E q \in PairLists :
       \E sent \in { q } \cup OneChanged(q) :
         InitOne([ PlainEnv EXCEPT !.SHOPIFY_APP_SECRET = "s1" ], ProxyRequest(q, sent))
  \/ \E s \in Secrets :
       \E q \in { p \in PairLists : Len(p) <= 1 } :
         \E sg \in SignaturesFor(q) :
           InitOne([ PlainEnv EXCEPT !.SHOPIFY_APP_SECRET = s ], FormRequest(q, sg))

SpecProxy == InitProxy /\ [][Next]_vars

\* ------------------------------------------------------------- C6
\* the signature the handler recomputes, as the hex string it is
Recomputed(i) == HexDigest(Hmac(env.SHOPIFY_APP_SECRET, Base(req[i].path, req[i].pairs)))

Refused401(i) ==
  /\ Done(i)
  /\ Answered(i, 401, "false", "Invalid Shopify proxy signature")
  /\ st[i].log = << "respond" >>
  /\ NoCalls(i, Collaborators)

\* the request is a validly signed one with one query parameter changed
\* and the signature kept
Tampered(i) ==
  /\ req[i].signed.key = env.SHOPIFY_APP_SECRET
  /\ req[i].signature = HexDigest(Hmac(req[i].signed.key, Base(req[i].path, req[i].signed.pairs)))
  /\ req[i].pairs \in OneChanged(req[i].signed.pairs)

\* C6: for a POST that carries the proxy's headers: with a secret
\* configured, a supplied signature that is not the recomputed one (or is
\* missing) is answered 401 before the body is read; so is every request
\* made from a validly signed one by changing a query parameter; with no
\* secret configured the check passes whatever the signature.
C6_AsStated ==
  \A i \in Inv :
    (Arrived(i) /\ IsPost(i) /\ req[i].rev = "proxy" /\ req[i].proxyHdr) =>
      /\ (env.SHOPIFY_APP_SECRET # "" /\ req[i].signature # Recomputed(i)) => Refused401(i)
      /\ (env.SHOPIFY_APP_SECRET # "" /\ Tampered(i)) => Refused401(i)
      /\ env.SHOPIFY_APP_SECRET = "" => st[i].log[1] = "read"

\* ------------------------------------------------------------- concurrent invocations
\* POSTs that run the pipeline, and POSTs stopped at validation
ConcRequests ==
  { [ PlainReq(rev) EXCEPT !.fields = f ] :
      rev \in { "proxy", "final" }, f \in { AllSet, [ AllSet EXCEPT ![Token] = AbsentV ] } }

\* every invocation has arrived; the resumptions interleave freely
InitConc ==
  /\ env \in { e \in Envs : e.SHOPIFY_APP_SECRET = "" /\ e.TEST_MODE \in { "", "1" } }
  /\ req \in [ Inv -> ConcRequests ]
  /\ st = [ i \in Inv |-> Fresh("start") ]
  /\ _openai = 0

SpecConc == InitConc /\ [][Next]_vars

\* ------------------------------------------------------------- C10
\* the invocation run alone in a fresh process (no client constructed yet),
\* with the answers its own calls got
AloneBody(s, rq) == IF s.pc = "awaitBody" THEN OnBody(s, rq) ELSE s
AloneFetch(s, rq, hc) ==
  IF s.pc = "awaitCaptcha"
  THEN OnFetch(s, rq, IF hc = "fetch-throws" THEN "throws" ELSE "response")
  ELSE s
AloneCaptcha(s, rq, e, hc, i) ==
  IF s.pc = "awaitJson" THEN OnCaptcha(s, rq, e, hc, 0, i) ELSE s
AloneGen(s, rq, g) == IF s.pc = "awaitGen" THEN OnGen(s, rq, g) ELSE s
AloneRender(s, rq, e, p) == IF s.pc = "awaitRender" THEN OnRender(s, rq, e, p) ELSE s
AloneEmail(s, rq, m) == IF s.pc = "awaitEmail" THEN OnEmail(s, rq, m) ELSE s

Alone(i) ==
  LET rq == req[i]
      s1 == OnRequest(Fresh("start"), rq, env)
      s2 == AloneBody(s1, rq)
      s3 == AloneCaptcha(AloneFetch(s2, rq, st[i].hc), rq, env, st[i].hc, i)
      s4 == AloneGen(s3, rq, st[i].gen)
      s5 == AloneRender(s4, rq, env, st[i].pdf)
  IN  AloneEmail(s5, rq, st[i].mail)

SentOk(i) == Answered(i, 200, "true", "Your reading is being sent to your email.")

\* C10 as stated: no mutable state written by one invocation is read by
\* another (the client an invocation uses is one it constructed itself),
\* and every successful POST has made its own single call to the CAPTCHA
\* provider, the text generation and the email service.
C10_AsStated ==
  \A i \in Inv :
    /\ st[i].client \in { 0, i }
    /\ (Done(i) /\ SentOk(i)) =>
         st[i].calls = [ c \in Collaborators |-> 1 ]

\* C10 amended: the one piece of state an invocation may read from another
\* is the lazily constructed text-generation client _openai; it changes
\* nothing that can be observed: every ended invocation has sent the
\* responses, made the calls and started the steps it would have alone in
\* a fresh process with the same answers to its calls, under every
\* interleaving; and every successful POST has made its own single call to
\* the CAPTCHA provider, the text generation and the email service.
C10_Independent ==
  \A i \in Inv :
    Done(i) =>
      LET a == Alone(i)
      IN  /\ st[i].resp = a.resp
          /\ st[i].calls = a.calls
          /\ st[i].log = a.log
          /\ st[i].escaped = a.escaped
          /\ SentOk(i) => st[i].calls = [ c \in Collaborators |-> 1 ]

\* two identical POSTs have both succeeded, the second with the client the
\* first constructed, and two emails were sent
C10_Witness ==
  \E i, j \in Inv :
    /\ i # j /\ req[i] = req[j] /\ req[i].rev = "final"
    /\ Done(i) /\ Done(j) /\ SentOk(i) /\ SentOk(j)
    /\ st[i].client = i /\ st[j].client = i
    /\ st[i].calls["email"] = 1 /\ st[j].calls["email"] = 1

\* ------------------------------------------------------------- C11
\* every response the invocation has sent carries Access-Control-Allow-Origin
\* with the request's Origin, or "*" when the request has none
CorsOnEvery(i) ==
  \A k \in 1..Len(st[i].resp) : st[i].resp[k].acao = CorsOrigin(req[i])

\* C11, for the handlers the claim is drawn from (the proxy-aware and final
\* revisions of the intake handler and the health-check route): every
\* response sent on any path carries the Access-Control-Allow-Origin header,
\* whose value is the request's Origin header or "*" when there is none.
C11_AsStated ==
  \A i \in Inv :
    req[i].rev \in { "proxy", "final", "ping" } => CorsOnEvery(i)

\* the part of C11 that does hold: the proxy-aware, final and diagnostic
\* revisions of the intake handler send the header on every path, the
\* catch-all's 500 included
CorsOnIntake ==
  \A i \in Inv :
    req[i].rev \in { "proxy", "final", "diag" } => CorsOnEvery(i)

=============================================================================
